---------------------------- MODULE Spec2Model ----------------------------
(***************************************************************************)
(* Model of the form-field extractor (package scrapper):                   *)
(*   - Scrapper.ExtractFields and its dispatch (newFormExtractor),         *)
(*   - the PDF adapter (NewPDFFormExtractor, downloadFile, Extract,        *)
(*     Close, cleanPDFFieldName),                                          *)
(*   - the HTML adapter (NewHTMLFormExtractor, Extract, Close).            *)
(* Go strings are sequences of one-character strings, so that the string   *)
(* functions of the code (strings.Fields, Join, TrimSpace, Trim,           *)
(* LastIndex, HasSuffix, ToLower, strconv.Atoi) are computed, not assumed. *)
(***************************************************************************)
EXTENDS Integers, Sequences, FiniteSets, TLC

VARIABLES
    config,       \* the Scrapper's *Config: [Timeout, MaxAttempts]
    calls,        \* call id -> the frame of one ExtractFields call
    files,        \* temp files created by os.CreateTemp: id -> record
    browsers,     \* browser sessions launched by rod: id -> record
    name,         \* the argument of one cleanPDFFieldName evaluation
    cleaned,      \* its result [cleanName, label]
    descriptors,  \* the descriptor strings api.FormFields returned
    dom,          \* what the browser answers to one HTMLFormExtractor.Extract
    formFields,   \* the result of one Extract (PDF or HTML adapter)
    ref,          \* the reference string given to newFormExtractor
    selected,     \* what newFormExtractor selected: [adapter, timeout]
    applied       \* whether the function under evaluation has been applied

vars == <<config, calls, files, browsers, name, cleaned, descriptors, dom,
          formFields, ref, selected, applied>>

-----------------------------------------------------------------------------
(* Bounds of the model.                                                    *)

\* longest argument of cleanPDFFieldName that is enumerated
MaxLen == 6
\* most whitespace-separated tokens in an enumerated PDF descriptor
MaxTokens == 5
\* longest enumerated reference string (besides the named samples)
MaxRefLen == 5
\* most digits in an enumerated numeric suffix (an int64 has at most 19)
MaxDigits == 20

-----------------------------------------------------------------------------
(* Go's string functions, on sequences of characters.                      *)

\* unicode.IsSpace, restricted to the characters of the model
IsSpace(c) == c \in {" ", "\t", "\n"}

IsDigit(c) == c \in {"0", "1", "2", "3", "4", "5", "6", "7", "8", "9"}

DigitVal(c) ==
    CASE c = "0" -> 0 [] c = "1" -> 1 [] c = "2" -> 2 [] c = "3" -> 3
      [] c = "4" -> 4 [] c = "5" -> 5 [] c = "6" -> 6 [] c = "7" -> 7
      [] c = "8" -> 8 [] c = "9" -> 9

\* s[from:] with Go's 0-based index
SliceFrom(s, from) == SubSeq(s, from + 1, Len(s))

\* s[:to] with Go's 0-based index
SliceTo(s, to) == SubSeq(s, 1, to)

RECURSIVE TrimLeftSet(_, _)
TrimLeftSet(s, cut) ==
    IF s # <<>> /\ Head(s) \in cut THEN TrimLeftSet(Tail(s), cut) ELSE s

RECURSIVE TrimRightSet(_, _)
TrimRightSet(s, cut) ==
    IF s # <<>> /\ s[Len(s)] \in cut
    THEN TrimRightSet(SubSeq(s, 1, Len(s) - 1), cut)
    ELSE s

\* strings.TrimSpace
TrimSpace(s) == TrimRightSet(TrimLeftSet(s, {" ", "\t", "\n"}), {" ", "\t", "\n"})

\* strings.Trim(s, cutset) for a one-character cutset: both ends
Trim(s, c) == TrimRightSet(TrimLeftSet(s, {c}), {c})

\* strings.HasPrefix / strings.HasSuffix
HasPrefix(s, p) == Len(s) >= Len(p) /\ SubSeq(s, 1, Len(p)) = p

HasSuffix(s, suf) ==
    Len(s) >= Len(suf) /\ SubSeq(s, Len(s) - Len(suf) + 1, Len(s)) = suf

\* strings.TrimPrefix
TrimPrefix(s, p) == IF HasPrefix(s, p) THEN SliceFrom(s, Len(p)) ELSE s

\* strings.LastIndex(s, c) for a one-character c: 0-based, -1 when absent
LastIndex(s, c) ==
    LET hits == {i \in 1..Len(s) : s[i] = c}
    IN  IF hits = {} THEN -1
        ELSE (CHOOSE i \in hits : \A j \in hits : j <= i) - 1

\* strings.Fields: the maximal runs of non-space characters, in order
RECURSIVE FieldsFrom(_, _, _)
FieldsFrom(s, cur, acc) ==
    IF s = <<>>
    THEN IF cur = <<>> THEN acc ELSE Append(acc, cur)
    ELSE IF IsSpace(Head(s))
         THEN FieldsFrom(Tail(s), <<>>,
                         IF cur = <<>> THEN acc ELSE Append(acc, cur))
         ELSE FieldsFrom(Tail(s), Append(cur, Head(s)), acc)

Fields(s) == FieldsFrom(s, <<>>, <<>>)

\* strings.Join(parts, sep)
RECURSIVE Join(_, _)
Join(parts, sep) ==
    IF parts = <<>> THEN <<>>
    ELSE IF Len(parts) = 1 THEN parts[1]
    ELSE parts[1] \o sep \o Join(Tail(parts), sep)

\* unicode.ToLower on the characters of the model
LowerChar(c) ==
    CASE c = "P" -> "p" [] c = "D" -> "d" [] c = "F" -> "f"
      [] c = "X" -> "x" [] OTHER -> c

\* strings.ToLower
ToLower(s) == [i \in 1..Len(s) |-> LowerChar(s[i])]

-----------------------------------------------------------------------------
(* strconv.Atoi: an optional sign, then one or more decimal digits whose   *)
(* value fits the (64-bit) int.  Only err == nil is used by the caller.    *)

MaxInt64Digits ==
    <<"9","2","2","3","3","7","2","0","3","6","8","5","4","7","7","5","8","0","7">>

\* a <= b for two digit strings of the same length
RECURSIVE DigitsLeq(_, _)
DigitsLeq(a, b) ==
    IF a = <<>> THEN TRUE
    ELSE IF DigitVal(Head(a)) < DigitVal(Head(b)) THEN TRUE
    ELSE IF DigitVal(Head(a)) > DigitVal(Head(b)) THEN FALSE
    ELSE DigitsLeq(Tail(a), Tail(b))

\* the magnitude is at most 2^63-1 (at most 2^63 after a minus sign)
FitsInt(digits, negative) ==
    LET d == TrimLeftSet(digits, {"0"})
    IN  \/ Len(d) < Len(MaxInt64Digits)
        \/ /\ Len(d) = Len(MaxInt64Digits)
           /\ \/ DigitsLeq(d, MaxInt64Digits)
              \/ negative /\ d = SubSeq(MaxInt64Digits, 1, 18) \o <<"8">>

AtoiOk(s) ==
    LET signed == s # <<>> /\ Head(s) \in {"+", "-"}
        digits == IF signed THEN Tail(s) ELSE s
    IN  /\ digits # <<>>
        /\ \A i \in 1..Len(digits) : IsDigit(digits[i])
        /\ FitsInt(digits, signed /\ Head(s) = "-")

-----------------------------------------------------------------------------
(* cleanPDFFieldName                                                       *)

\* lines 117-141: from the joined tokens after the first to name and label
CleanBase(joined0) ==
    LET joined == TrimSpace(joined0)
        idx == LastIndex(joined, "_")
        found == idx # -1 /\ AtoiOk(SliceFrom(joined, idx + 1))
        suffix == IF found THEN SliceFrom(joined, idx) ELSE <<>>
        cut == IF found THEN TrimSpace(SliceTo(joined, idx)) ELSE joined
        baseName == Trim(Trim(TrimSpace(cut), "\""), "}")
        cleanName == IF suffix # <<>> THEN baseName \o suffix ELSE baseName
        label == IF suffix # <<>>
                 THEN baseName \o <<" ", "(">> \o TrimPrefix(suffix, <<"_">>)
                               \o <<")">>
                 ELSE baseName
    IN  [cleanName |-> cleanName, label |-> label]

\* a faulty variant: the first token is not dropped (parts[0:] for parts[1:])
cleanPDFFieldName_KeepFirst(raw) ==
    LET parts == Fields(raw)
    IN  IF Len(parts) < 2
        THEN [cleanName |-> raw, label |-> raw]
        ELSE CleanBase(Join(parts, <<" ">>))

cleanPDFFieldName(raw) ==
    LET parts == Fields(raw)
    IN  IF Len(parts) < 2
        THEN [cleanName |-> raw, label |-> raw]
        ELSE CleanBase(Join(Tail(parts), <<" ">>))

-----------------------------------------------------------------------------
(* FormField and PDFFormExtractor.Extract                                  *)

\* FormField{Name, Type, Label}: Required and Value keep their zero values
PDFField(cleanName, fieldType, label) ==
    [Name |-> cleanName, Type |-> fieldType, Label |-> label,
     Required |-> FALSE, Value |-> <<>>]

\* a faulty variant: the type is read one token early (parts[1] for parts[2])
PDFExtractOne_TypeOffByOne(acc, field) ==
    LET parts == Fields(field)
    IN  IF Len(parts) >= 3
        THEN LET c == cleanPDFFieldName(Join(SubSeq(parts, 4, Len(parts)), <<" ">>))
             IN  Append(acc, PDFField(c.cleanName, parts[2], c.label))
        ELSE acc

\* the body of the loop over fields: append one FormField, or nothing
PDFExtractOne(acc, field) ==
    LET parts == Fields(field)
    IN  IF Len(parts) >= 3
        THEN LET fieldType == parts[3]
                 fieldName == Join(SubSeq(parts, 4, Len(parts)), <<" ">>)
                 c == cleanPDFFieldName(fieldName)
             IN  Append(acc, PDFField(c.cleanName, fieldType, c.label))
        ELSE acc

\* for _, field := range fields { ... }
RECURSIVE PDFExtractLoop(_, _)
PDFExtractLoop(acc, fields) ==
    IF fields = <<>> THEN acc
    ELSE PDFExtractLoop(PDFExtractOne(acc, Head(fields)), Tail(fields))

\* PDFFormExtractor.Extract once api.FormFields has returned the descriptors
PDFExtract(fields) == PDFExtractLoop(<<>>, fields)

-----------------------------------------------------------------------------
(* Scrapper.newFormExtractor                                               *)

NoTimeout == "none"

\* a faulty variant: the extension is compared without strings.ToLower
newFormExtractor_CaseSensitive(cfg, url) ==
    IF HasSuffix(url, <<".", "p", "d", "f">>)
    THEN [adapter |-> "pdf", timeout |-> NoTimeout]
    ELSE [adapter |-> "html", timeout |-> cfg.Timeout]

\* the adapter constructor that is called, and the timeout it is handed
newFormExtractor(cfg, url) ==
    IF HasSuffix(ToLower(url), <<".", "p", "d", "f">>)
    THEN [adapter |-> "pdf", timeout |-> NoTimeout]
    ELSE [adapter |-> "html", timeout |-> cfg.Timeout]

-----------------------------------------------------------------------------
(* HTMLFormExtractor.Extract: one element of the page.  An element is a    *)
(* function from the names of the attributes it has to their values; a     *)
(* page is [elements, labels], labels the <label for=...> elements.        *)

\* a faulty variant: the placeholder is consulted before the aria-label
HTMLField_PlaceholderFirst(e, labelText) ==
    LET typeStr == IF "type" \in DOMAIN e THEN e["type"] ELSE <<"t","e","x","t">>
        l1 == labelText
        l2 == IF l1 = <<>> /\ "placeholder" \in DOMAIN e THEN e["placeholder"] ELSE l1
        l3 == IF l2 = <<>> /\ "aria-label" \in DOMAIN e THEN e["aria-label"] ELSE l2
        l4 == IF l3 = <<>> THEN e["name"] ELSE l3
    IN  [Name |-> e["name"], Type |-> typeStr, Label |-> l4,
         Required |-> "required" \in DOMAIN e, Value |-> <<>>]

\* the record appended for an element that has a name; labelText is what
\* the label[for=id] lookup produced ("" when it produced nothing)
HTMLField(e, labelText) ==
    LET typeStr == IF "type" \in DOMAIN e THEN e["type"] ELSE <<"t","e","x","t">>
        l1 == labelText
        l2 == IF l1 = <<>> /\ "aria-label" \in DOMAIN e THEN e["aria-label"] ELSE l1
        l3 == IF l2 = <<>> /\ "placeholder" \in DOMAIN e THEN e["placeholder"] ELSE l2
        l4 == IF l3 = <<>> THEN e["name"] ELSE l3
    IN  [Name |-> e["name"], Type |-> typeStr, Label |-> l4,
         Required |-> "required" \in DOMAIN e, Value |-> <<>>]

\* the loop over elements from element i on, up to the next label[for=id]
\* lookup (a call to the browser) or to the end of the elements
RECURSIVE HTMLLoop(_, _, _)
HTMLLoop(elements, i, acc) ==
    IF i > Len(elements)
    THEN [idx |-> i, acc |-> acc, blocked |-> FALSE]
    ELSE IF "name" \notin DOMAIN elements[i]
         THEN HTMLLoop(elements, i + 1, acc)
         ELSE IF "id" \in DOMAIN elements[i]
              THEN [idx |-> i, acc |-> acc, blocked |-> TRUE]
              ELSE HTMLLoop(elements, i + 1,
                            Append(acc, HTMLField(elements[i], <<>>)))

\* the whole loop of Extract over elements, from element i on, when the
\* label[for=id] lookup made for element j produces texts[j]
RECURSIVE HTMLExtractFrom(_, _, _, _)
HTMLExtractFrom(elements, texts, i, acc) ==
    LET r == HTMLLoop(elements, i, acc)
    IN  IF r.blocked
        THEN HTMLExtractFrom(elements, texts, r.idx + 1,
                 Append(r.acc, HTMLField(elements[r.idx], texts[r.idx])))
        ELSE r.acc

\* HTMLFormExtractor.Extract once Elements has returned the elements
HTMLExtract(elements, texts) == HTMLExtractFrom(elements, texts, 1, <<>>)

\* the text of the first label of the page whose for attribute is id
LabelsFor(page, id) == SelectSeq(page.labels, LAMBDA l : l.for = id)

-----------------------------------------------------------------------------
(* One ExtractFields call: its frame, and the resources of the process.    *)

CallIds == {"c1", "c2"}

\* the zero values of the results
NoName == [cleanName |-> <<>>, label |-> <<>>]

NoAdapter == [adapter |-> "none", timeout |-> NoTimeout]

NoPage == [elements |-> <<>>, labels |-> <<>>]

\* no elements, and so no label texts
NoDom == [elements |-> <<>>, texts |-> <<>>]

IdleFrame ==
    [pc |-> "idle", url |-> <<>>, adapter |-> "none", timeout |-> NoTimeout,
     built |-> FALSE, file |-> 0, browser |-> 0, deadline |-> FALSE,
     extractDone |-> FALSE, closeCalls |-> 0, closedAfterExtract |-> FALSE,
     ctorCalls |-> 0, extractCalls |-> 0,
     page |-> NoPage, idx |-> 0, acc |-> <<>>,
     fields |-> <<>>, err |-> "nil", ret |-> "none"]

Live(c) == c \in DOMAIN calls

At(c, where) == Live(c) /\ calls[c].pc = where

SetFrame(c, fr) == calls' = [calls EXCEPT ![c] = fr]

\* return fields, err from ExtractFields
Return(fr, fields, err) ==
    [fr EXCEPT !.pc = "returned", !.deadline = FALSE,
               !.ret = [fields |-> fields, err |-> err]]

\* a panic leaves ExtractFields without a return value
Panic(fr) == [fr EXCEPT !.pc = "panicked", !.deadline = FALSE]

\* a faulty variant: a failed constructor is called again while the
\* attempts made are fewer than config.MaxAttempts
CtorFailed_Retry(fr) ==
    IF fr.ctorCalls < config.MaxAttempts
    THEN [fr EXCEPT !.pc = IF fr.adapter = "pdf" THEN "os.CreateTemp"
                                                 ELSE "MustConnect",
                    !.ctorCalls = @ + 1, !.file = 0, !.browser = 0,
                    !.deadline = FALSE]
    ELSE Return(fr, <<>>, "failed to create form extractor")

\* ExtractFields, line 33: the constructor failed
CtorFailed(fr) == Return(fr, <<>>, "failed to create form extractor")

\* tempFile.Close(); os.Remove(tempFile.Name())
CloseAndRemove(fs, f) == [fs EXCEPT ![f].closed = TRUE, ![f].removed = TRUE]

\* browser.MustClose() was called on session b
CloseBrowser(bs, b) == [bs EXCEPT ![b].closed = TRUE]

-----------------------------------------------------------------------------
(* Config, New and its options.                                            *)

defaultConfig == [Timeout |-> "30s", MaxAttempts |-> 3]

WithTimeout(cfg, t) == [cfg EXCEPT !.Timeout = t]

WithMaxAttempts(cfg, n) == [cfg EXCEPT !.MaxAttempts = n]

\* the configurations New(options...) builds from the enumerated options
Configs ==
    {defaultConfig, WithTimeout(defaultConfig, "5s"),
     WithMaxAttempts(defaultConfig, 1),
     WithMaxAttempts(WithTimeout(defaultConfig, "5s"), 1)}

-----------------------------------------------------------------------------
(* The inputs of the calls: references, and what the collaborators (the    *)
(* PDF parser, the browser) answer for them.                               *)

Refs ==
    { <<"h","t","t","p","s",":","/","/","x","/","y","/","f","o","r","m",".","P","D","F">>,
      <<"h","t","t","p","s",":","/","/","x","/","y","/","a","p","p","l","y">>,
      <<"a",".","p","d","f">>,
      <<"a",".","p","d","f","?","x">> }

\* descriptor strings, as fmt.Sprintf("%v", field) prints them
Docs ==
    { <<>>,
      << <<"1"," ","0"," ","T","x"," ","7"," ","a","_","1">>, <<"1"," ","0">> >>,
      << <<"1"," ","0"," ","T","x">> >>,
      << <<"1"," ","0"," ","T","x"," ","1"," ","a">>,
         <<"2"," ","0"," ","T","x"," ","2"," ","a">> >> }

Pages ==
    { NoPage,
      \* a text input with a for-linked label, and a control without a name
      [elements |-> << [name |-> <<"n">>, id |-> <<"i">>, type |-> <<"e">>,
                        required |-> <<>>],
                       [type |-> <<"s">>] >>,
       labels |-> << [for |-> <<"i">>, text |-> <<"L">>] >>],
      \* an input with an id that no label refers to
      [elements |-> << [name |-> <<"n">>, id |-> <<"j">>,
                        placeholder |-> <<"P">>] >>,
       labels |-> <<>>],
      \* two radio buttons sharing a name, and an empty name attribute
      [elements |-> << [name |-> <<"g">>, type |-> <<"r">>],
                       [name |-> <<"g">>, type |-> <<"r">>],
                       [name |-> <<>>] >>,
       labels |-> <<>>] }

-----------------------------------------------------------------------------
(* Scrapper.ExtractFields, step by step.  A step ends where the code calls *)
(* a collaborator; pc names the call the frame is waiting in.              *)

\* ExtractFields is called with a reference: newFormExtractor dispatches
Call(c) ==
    /\ At(c, "idle")
    /\ \E u \in Refs :
         LET d == newFormExtractor(config, u)
         IN  SetFrame(c, [calls[c] EXCEPT
                 !.url = u, !.adapter = d.adapter, !.timeout = d.timeout,
                 !.ctorCalls = @ + 1,
                 !.pc = IF d.adapter = "pdf" THEN "os.CreateTemp"
                                             ELSE "MustConnect"])
    /\ UNCHANGED <<config, dom, files, browsers, name, cleaned, descriptors,
                   formFields, ref, selected, applied>>

\* a faulty variant: Close is called after a successful Extract only, not
\* deferred, so the error return skips it
AfterExtract_CloseOnSuccessOnly(fr, fields, failed) ==
    IF failed
    THEN Return([fr EXCEPT !.extractDone = TRUE], <<>>, "failed to extract fields")
    ELSE [fr EXCEPT !.extractDone = TRUE, !.deadline = FALSE, !.pc = "Close",
                    !.fields = fields, !.err = "nil"]

\* ExtractFields, lines 36-43: Extract has returned; the deferred Close is
\* what runs next, whether err is nil or not
AfterExtract(fr, fields, failed) ==
    [fr EXCEPT !.extractDone = TRUE, !.deadline = FALSE, !.pc = "Close",
               !.fields = IF failed THEN <<>> ELSE fields,
               !.err = IF failed THEN "failed to extract fields" ELSE "nil"]

\* a faulty variant: the download goes to one fixed path (os.Create of a
\* constant name for os.CreateTemp), so a later call reopens the file of an
\* earlier one
CreateTemp_FixedName(c) ==
    /\ At(c, "os.CreateTemp")
    /\ \E ok \in BOOLEAN :
         IF ok
         THEN /\ files' = IF files = <<>>
                          THEN <<[owner |-> c, closed |-> FALSE,
                                  removed |-> FALSE]>>
                          ELSE [files EXCEPT ![1].closed = FALSE,
                                             ![1].removed = FALSE]
              /\ SetFrame(c, [calls[c] EXCEPT !.file = 1,
                                              !.pc = "http.Get",
                                              !.deadline = FALSE])
         ELSE /\ files' = files
              /\ SetFrame(c, CtorFailed(calls[c]))
    /\ UNCHANGED <<config, dom, browsers, name, cleaned, descriptors,
                   formFields, ref, selected, applied>>

\* downloadFile: os.CreateTemp
CreateTemp(c) ==
    /\ At(c, "os.CreateTemp")
    /\ \E ok \in BOOLEAN :
         IF ok
         THEN /\ files' = Append(files, [owner |-> c, closed |-> FALSE,
                                         removed |-> FALSE])
              /\ SetFrame(c, [calls[c] EXCEPT !.file = Len(files) + 1,
                                              !.pc = "http.Get",
                                              !.deadline = FALSE])
         ELSE /\ files' = files
              /\ SetFrame(c, CtorFailed(calls[c]))
    /\ UNCHANGED <<config, dom, browsers, name, cleaned, descriptors,
                   formFields, ref, selected, applied>>

\* downloadFile: http.Get(url) answers with an error or a status
HttpGet(c) ==
    /\ At(c, "http.Get")
    /\ \E r \in {"error", "200 OK", "404 Not Found"} :
         IF r = "200 OK"
         THEN /\ files' = files
              /\ SetFrame(c, [calls[c] EXCEPT !.pc = "io.Copy",
                                              !.deadline = FALSE])
         ELSE /\ files' = CloseAndRemove(files, calls[c].file)
              /\ SetFrame(c, CtorFailed(calls[c]))
    /\ UNCHANGED <<config, dom, browsers, name, cleaned, descriptors,
                   formFields, ref, selected, applied>>

\* downloadFile: io.Copy(tempFile, resp.Body)
IoCopy(c) ==
    /\ At(c, "io.Copy")
    /\ \E ok \in BOOLEAN :
         IF ok
         THEN /\ files' = files
              /\ SetFrame(c, [calls[c] EXCEPT !.pc = "Seek"])
         ELSE /\ files' = CloseAndRemove(files, calls[c].file)
              /\ SetFrame(c, CtorFailed(calls[c]))
    /\ UNCHANGED <<config, dom, browsers, name, cleaned, descriptors,
                   formFields, ref, selected, applied>>

\* downloadFile: tempFile.Seek(0, 0); then NewPDFFormExtractor returns the
\* adapter and Extract starts with api.FormFields
Seek(c) ==
    /\ At(c, "Seek")
    /\ \E ok \in BOOLEAN :
         IF ok
         THEN /\ files' = files
              /\ SetFrame(c, [calls[c] EXCEPT !.built = TRUE,
                                              !.extractCalls = @ + 1,
                                              !.pc = "api.FormFields"])
         ELSE /\ files' = CloseAndRemove(files, calls[c].file)
              /\ SetFrame(c, CtorFailed(calls[c]))
    /\ UNCHANGED <<config, dom, browsers, name, cleaned, descriptors,
                   formFields, ref, selected, applied>>

\* PDFFormExtractor.Extract: api.FormFields fails, or lists the fields
FormFields(c) ==
    /\ At(c, "api.FormFields")
    /\ \/ SetFrame(c, AfterExtract(calls[c], <<>>, TRUE))
       \/ \E d \in Docs : SetFrame(c, AfterExtract(calls[c], PDFExtract(d), FALSE))
    /\ UNCHANGED <<config, dom, files, browsers, name, cleaned, descriptors,
                   formFields, ref, selected, applied>>

\* PDFFormExtractor.Close on the temp files: file.Close(), then, unless
\* that failed, os.Remove
PDFCloseFile(fs, f, closeFailed) ==
    IF closeFailed THEN [fs EXCEPT ![f].closed = TRUE]
                   ELSE [fs EXCEPT ![f].closed = TRUE, ![f].removed = TRUE]

\* the deferred extractor.Close() of a PDF adapter, then the return
PDFClose(c) ==
    /\ At(c, "Close")
    /\ calls[c].adapter = "pdf"
    /\ \E r \in {"close error", "remove error", "ok"} :
         files' = PDFCloseFile(files, calls[c].file, r = "close error")
    /\ SetFrame(c, Return([calls[c] EXCEPT
                              !.closeCalls = @ + 1,
                              !.closedAfterExtract = calls[c].extractDone],
                          calls[c].fields, calls[c].err))
    /\ UNCHANGED <<config, dom, browsers, name, cleaned, descriptors,
                   formFields, ref, selected, applied>>

-----------------------------------------------------------------------------
(* The HTML path: NewHTMLFormExtractor, Extract, Close.                    *)

\* rod.New().MustConnect(): a browser session, or a panic
MustConnect(c) ==
    /\ At(c, "MustConnect")
    /\ \E ok \in BOOLEAN :
         IF ok
         THEN /\ browsers' = Append(browsers, [owner |-> c, closed |-> FALSE])
              /\ SetFrame(c, [calls[c] EXCEPT !.browser = Len(browsers) + 1,
                                              !.pc = "MustPage"])
         ELSE /\ browsers' = browsers
              /\ SetFrame(c, Panic(calls[c]))
    /\ UNCHANGED <<config, dom, files, name, cleaned, descriptors,
                   formFields, ref, selected, applied>>

\* browser.MustPage(): a page, or a panic; then page.Timeout(timeout).Navigate
MustPage(c) ==
    /\ At(c, "MustPage")
    /\ \E ok \in BOOLEAN :
         IF ok
         THEN SetFrame(c, [calls[c] EXCEPT !.pc = "Navigate",
                                           !.deadline = TRUE])
         ELSE SetFrame(c, Panic(calls[c]))
    /\ UNCHANGED <<config, dom, files, browsers, name, cleaned, descriptors,
                   formFields, ref, selected, applied>>

\* the error branches of NewHTMLFormExtractor: browser.MustClose() (which
\* panics when closing fails), then return nil, err
CtorCleanup(c) ==
    /\ browsers' = CloseBrowser(browsers, calls[c].browser)
    /\ \E closeOk \in BOOLEAN :
         SetFrame(c, IF closeOk THEN CtorFailed(calls[c]) ELSE Panic(calls[c]))

\* Navigate has returned (failed: an error, the timeout included)
NavigateDone(c, failed) ==
    IF failed
    THEN CtorCleanup(c)
    ELSE /\ browsers' = browsers
         /\ SetFrame(c, [calls[c] EXCEPT !.pc = "WaitLoad", !.deadline = TRUE])

\* WaitLoad has returned; on success the adapter is built, and Extract
\* starts with h.page.Timeout(h.timeout).Elements
WaitLoadDone(c, failed) ==
    IF failed
    THEN CtorCleanup(c)
    ELSE /\ browsers' = browsers
         /\ SetFrame(c, [calls[c] EXCEPT !.built = TRUE, !.pc = "Elements",
                                         !.extractCalls = @ + 1,
                                         !.deadline = TRUE])

\* Extract carries on after a step of its loop: into the next label lookup,
\* h.page.Element (no Timeout), or out of the loop
ContinueExtract(fr, r) ==
    IF r.blocked
    THEN [fr EXCEPT !.pc = "page.Element", !.deadline = FALSE,
                    !.idx = r.idx, !.acc = r.acc]
    ELSE AfterExtract([fr EXCEPT !.idx = r.idx, !.acc = r.acc], r.acc, FALSE)

\* Elements has returned
ElementsDone(c, failed, page) ==
    /\ browsers' = browsers
    /\ SetFrame(c, IF failed
                   THEN AfterExtract(calls[c], <<>>, TRUE)
                   ELSE ContinueExtract([calls[c] EXCEPT !.page = page],
                                        HTMLLoop(page.elements, 1, <<>>)))

Navigate(c) ==
    /\ At(c, "Navigate")
    /\ \E failed \in BOOLEAN : NavigateDone(c, failed)
    /\ UNCHANGED <<config, dom, files, name, cleaned, descriptors,
                   formFields, ref, selected, applied>>

WaitLoad(c) ==
    /\ At(c, "WaitLoad")
    /\ \E failed \in BOOLEAN : WaitLoadDone(c, failed)
    /\ UNCHANGED <<config, dom, files, name, cleaned, descriptors,
                   formFields, ref, selected, applied>>

Elements(c) ==
    /\ At(c, "Elements")
    /\ \/ ElementsDone(c, TRUE, NoPage)
       \/ \E page \in Pages : ElementsDone(c, FALSE, page)
    /\ UNCHANGED <<config, dom, files, name, cleaned, descriptors,
                   formFields, ref, selected, applied>>

\* the deadline of a call made under page.Timeout(...) passes: the call
\* returns context.DeadlineExceeded
TimeoutFires(c) ==
    /\ Live(c)
    /\ calls[c].deadline
    /\ \/ At(c, "Navigate") /\ NavigateDone(c, TRUE)
       \/ At(c, "WaitLoad") /\ WaitLoadDone(c, TRUE)
       \/ At(c, "Elements") /\ ElementsDone(c, TRUE, NoPage)
    /\ UNCHANGED <<config, dom, files, name, cleaned, descriptors,
                   formFields, ref, selected, applied>>

\* h.page.Element("label[for='id']") answers for element idx: the label
\* (whose Text() may fail), or an error; the loop then carries on
LabelLookup(c) ==
    /\ At(c, "page.Element")
    /\ LET fr == calls[c]
           e == fr.page.elements[fr.idx]
           found == LabelsFor(fr.page, e["id"])
       IN  \E text \in {<<>>} \cup (IF found = <<>> THEN {} ELSE {found[1].text}) :
             SetFrame(c, ContinueExtract(fr,
                 HTMLLoop(fr.page.elements, fr.idx + 1,
                          Append(fr.acc, HTMLField(e, text)))))
    /\ UNCHANGED <<config, dom, files, browsers, name, cleaned, descriptors,
                   formFields, ref, selected, applied>>

\* the deferred extractor.Close() of an HTML adapter (browser.MustClose(),
\* which panics when closing fails), then the return
HTMLClose(c) ==
    /\ At(c, "Close")
    /\ calls[c].adapter = "html"
    /\ browsers' = CloseBrowser(browsers, calls[c].browser)
    /\ \E closeOk \in BOOLEAN :
         LET fr == [calls[c] EXCEPT !.closeCalls = @ + 1,
                                    !.closedAfterExtract = calls[c].extractDone]
         IN  SetFrame(c, IF closeOk THEN Return(fr, fr.fields, fr.err)
                                    ELSE Panic(fr))
    /\ UNCHANGED <<config, dom, files, name, cleaned, descriptors,
                   formFields, ref, selected, applied>>

-----------------------------------------------------------------------------
(* The specification of the calls.                                         *)

Init ==
    /\ config \in Configs
    /\ calls = [c \in {"c1"} |-> IdleFrame]
    /\ files = <<>>
    /\ browsers = <<>>
    /\ name = <<>>
    /\ cleaned = NoName
    /\ descriptors = <<>>
    /\ dom = NoDom
    /\ formFields = <<>>
    /\ ref = <<>>
    /\ selected = NoAdapter
    /\ applied = FALSE

Next ==
    \E c \in CallIds :
       \/ Call(c)
       \/ CreateTemp(c)
       \/ HttpGet(c)
       \/ IoCopy(c)
       \/ Seek(c)
       \/ FormFields(c)
       \/ PDFClose(c)
       \/ MustConnect(c)
       \/ MustPage(c)
       \/ Navigate(c)
       \/ WaitLoad(c)
       \/ Elements(c)
       \/ TimeoutFires(c)
       \/ LabelLookup(c)
       \/ HTMLClose(c)

Spec == Init /\ [][Next]_vars

\* several goroutines call ExtractFields on one Scrapper
InitConcurrent ==
    /\ config \in Configs
    /\ calls = [c \in CallIds |-> IdleFrame]
    /\ files = <<>>
    /\ browsers = <<>>
    /\ name = <<>>
    /\ cleaned = NoName
    /\ descriptors = <<>>
    /\ dom = NoDom
    /\ formFields = <<>>
    /\ ref = <<>>
    /\ selected = NoAdapter
    /\ applied = FALSE

SpecConcurrent == InitConcurrent /\ [][Next]_vars

\* the steps that wait for nothing outside the process
LocalStep(c) ==
    \/ CreateTemp(c)
    \/ Seek(c)
    \/ FormFields(c)
    \/ PDFClose(c)
    \/ MustConnect(c)
    \/ MustPage(c)
    \/ HTMLClose(c)

\* the Go runtime runs a goroutine that can run, and a deadline that is set
\* passes; nothing makes a remote server or the browser answer
FairSpec ==
    Spec /\ \A c \in CallIds : WF_vars(LocalStep(c)) /\ WF_vars(TimeoutFires(c))

-----------------------------------------------------------------------------
(* The pure functions on enumerated inputs: each specification draws the   *)
(* input in its initial state and has one action, which applies the        *)
(* function.                                                               *)

\* all strings of at most n characters of S
Strings(S, n) == UNION {[1..k -> S] : k \in 0..n}

NoCalls == [c \in {} |-> IdleFrame]

\* the characters of the enumerated field names
Alphabet == {" ", "_", "1", "a", "-", "\"", "}"}

InitClean ==
    /\ name \in Strings(Alphabet, MaxLen)
    /\ cleaned = NoName
    /\ config = defaultConfig
    /\ calls = NoCalls
    /\ files = <<>>
    /\ browsers = <<>>
    /\ descriptors = <<>>
    /\ dom = NoDom
    /\ formFields = <<>>
    /\ ref = <<>>
    /\ selected = NoAdapter
    /\ applied = FALSE

Clean ==
    /\ ~applied
    /\ applied' = TRUE
    /\ cleaned' = cleanPDFFieldName(name)
    /\ UNCHANGED <<config, dom, calls, files, browsers, name, descriptors,
                   formFields, ref, selected>>

SpecClean == InitClean /\ [][Clean]_vars

\* the texts put after the last underscore of a field name: an optional
\* sign, then up to MaxDigits times one digit; and the two ends of int64
SuffixTexts ==
    {sign \o [i \in 1..k |-> d] :
        sign \in {<<>>, <<"+">>, <<"-">>}, d \in {"0", "1", "9"},
        k \in 0..MaxDigits}
    \cup {MaxInt64Digits, SubSeq(MaxInt64Digits, 1, 18) \o <<"8">>}

InitSuffix ==
    /\ name \in {<<"7", " ", "a", "_">> \o t : t \in SuffixTexts}
    /\ cleaned = NoName
    /\ config = defaultConfig
    /\ calls = NoCalls
    /\ files = <<>>
    /\ browsers = <<>>
    /\ descriptors = <<>>
    /\ dom = NoDom
    /\ formFields = <<>>
    /\ ref = <<>>
    /\ selected = NoAdapter
    /\ applied = FALSE

SpecSuffix == InitSuffix /\ [][Clean]_vars

\* the tokens of the enumerated descriptors, and what separates them
DescTokens == { <<"T", "x">>, <<"a", "_", "1">> }

Separators == { <<" ">>, <<"\t", " ">> }

\* the descriptors of at most MaxTokens tokens, written with separator sep
DescriptorsWith(sep) ==
    {Join(t, sep) : t \in Strings(DescTokens, MaxTokens)}

\* the lists of at most two descriptors
DescriptorLists ==
    UNION {Strings(DescriptorsWith(sep), 2) : sep \in Separators}

InitPDF ==
    /\ descriptors \in DescriptorLists
    /\ dom = NoDom
    /\ formFields = <<>>
    /\ config = defaultConfig
    /\ calls = NoCalls
    /\ files = <<>>
    /\ browsers = <<>>
    /\ name = <<>>
    /\ cleaned = NoName
    /\ ref = <<>>
    /\ selected = NoAdapter
    /\ applied = FALSE

ExtractPDF ==
    /\ ~applied
    /\ applied' = TRUE
    /\ formFields' = PDFExtract(descriptors)
    /\ UNCHANGED <<config, dom, calls, files, browsers, name, cleaned,
                   descriptors, ref, selected>>

SpecPDF == InitPDF /\ [][ExtractPDF]_vars

\* an attribute that is absent, or present with one of the values
AttrChoices(attr, values) == {<<>>} \cup {attr :> v : v \in values}

\* the enumerated elements: every attribute Extract reads is absent, empty
\* or set
HTMLElements ==
    {t @@ n @@ i @@ a @@ p @@ r :
        t \in AttrChoices("type", {<<>>, <<"e">>}),
        n \in AttrChoices("name", {<<>>, <<"n">>}),
        i \in AttrChoices("id", {<<"i">>}),
        a \in AttrChoices("aria-label", {<<>>, <<"A">>}),
        p \in AttrChoices("placeholder", {<<"P">>}),
        r \in AttrChoices("required", {<<>>, <<"r">>})}

\* an element with what its label[for=id] lookup produces: the text of the
\* label, or nothing (no lookup is made without a name and an id)
ElementsWithText ==
    {[element |-> e, text |-> t] : e \in HTMLElements, t \in {<<>>, <<"L">>}}
    \ {[element |-> e, text |-> <<"L">>] :
           e \in {x \in HTMLElements : ~({"name", "id"} \subseteq DOMAIN x)}}

\* the pages of at most two elements
Doms ==
    {[elements |-> [i \in 1..Len(s) |-> s[i].element],
      texts |-> [i \in 1..Len(s) |-> s[i].text]] :
        s \in Strings(ElementsWithText, 2)}

InitHTML ==
    /\ dom \in Doms
    /\ formFields = <<>>
    /\ config = defaultConfig
    /\ calls = NoCalls
    /\ files = <<>>
    /\ browsers = <<>>
    /\ name = <<>>
    /\ cleaned = NoName
    /\ descriptors = <<>>
    /\ ref = <<>>
    /\ selected = NoAdapter
    /\ applied = FALSE

ExtractHTML ==
    /\ ~applied
    /\ applied' = TRUE
    /\ formFields' = HTMLExtract(dom.elements, dom.texts)
    /\ UNCHANGED <<config, dom, calls, files, browsers, name, cleaned,
                   descriptors, ref, selected>>

SpecHTML == InitHTML /\ [][ExtractHTML]_vars

\* the characters of the enumerated references
RefAlphabet == {".", "p", "P", "d", "D", "f", "F"}

InitDispatch ==
    /\ ref \in Strings(RefAlphabet, MaxRefLen) \cup Refs
    /\ selected = NoAdapter
    /\ applied = FALSE
    /\ config \in {defaultConfig, WithTimeout(defaultConfig, "5s")}
    /\ calls = NoCalls
    /\ files = <<>>
    /\ browsers = <<>>
    /\ name = <<>>
    /\ cleaned = NoName
    /\ descriptors = <<>>
    /\ dom = NoDom
    /\ formFields = <<>>

Dispatch ==
    /\ ~applied
    /\ applied' = TRUE
    /\ selected' = newFormExtractor(config, ref)
    /\ UNCHANGED <<config, dom, calls, files, browsers, name, cleaned,
                   descriptors, formFields, ref>>

SpecDispatch == InitDispatch /\ [][Dispatch]_vars

-----------------------------------------------------------------------------
(* Properties.                                                             *)

\* s contains sub as a substring
Contains(s, sub) ==
    \E i \in 1..(Len(s) - Len(sub) + 1) : SubSeq(s, i, i + Len(sub) - 1) = sub

\* the last four characters of s are ".pdf" in any mix of cases
EndsInDotPdf(s) ==
    LET n == Len(s)
    IN  /\ n >= 4
        /\ s[n - 3] = "."
        /\ s[n - 2] \in {"p", "P"}
        /\ s[n - 1] \in {"d", "D"}
        /\ s[n] \in {"f", "F"}

Terminated(c) == Live(c) /\ calls[c].pc \in {"returned", "panicked"}

\* C1: newFormExtractor selects the PDF adapter exactly for the references
\* that end, in any mix of cases, with ".pdf", and the HTML adapter for all
\* others, whatever the configuration.
C1_DispatchOnSuffix ==
    applied =>
        /\ selected.adapter \in {"pdf", "html"}
        /\ selected.adapter = "pdf" <=> EndsInDotPdf(ref)

\* C1, reached: "https://x/y/form.PDF" was dispatched to the PDF adapter
C1_Witness ==
    /\ applied
    /\ Len(ref) = 20
    /\ SubSeq(ref, 17, 20) = <<".", "P", "D", "F">>
    /\ selected.adapter = "pdf"

\* C2: the Close of an adapter that was built is called at most once, only
\* after Extract has returned, and it has been called exactly once when
\* ExtractFields is over, with or without an error from Extract.
C2_ClosedExactlyOnce ==
    \A c \in DOMAIN calls :
        /\ calls[c].closeCalls <= 1
        /\ calls[c].closeCalls = 1 =>
               calls[c].built /\ calls[c].closedAfterExtract
        /\ (calls[c].built /\ Terminated(c)) => calls[c].closeCalls = 1

\* C2, reached: a call whose Extract failed has returned, its adapter closed
C2_Witness ==
    \E c \in DOMAIN calls :
        /\ calls[c].built
        /\ calls[c].pc = "returned"
        /\ calls[c].ret.err = "failed to extract fields"
        /\ calls[c].closeCalls = 1

\* C3: once PDFFormExtractor.Close has run, the file handle has been closed
\* and the temporary file has been removed, on every exit path of Close.
C3_CloseRemovesTempFile ==
    \A c \in DOMAIN calls :
        (calls[c].adapter = "pdf" /\ calls[c].closeCalls >= 1) =>
            /\ files[calls[c].file].closed
            /\ files[calls[c].file].removed

\* C4: when the construction of the adapter has failed and the call is
\* over, every temp file and every browser session the call had acquired
\* has been released.
C4_FailedCtorReleases ==
    \A c \in DOMAIN calls :
        (Terminated(c) /\ ~calls[c].built) =>
            /\ \A f \in DOMAIN files :
                   files[f].owner = c => files[f].closed /\ files[f].removed
            /\ \A b \in DOMAIN browsers :
                   browsers[b].owner = c => browsers[b].closed

\* C5: every call of ExtractFields that has started comes to an end, whatever
\* the collaborators do, because each call it waits in has a deadline.
C5_EveryCallEnds ==
    \A c \in CallIds :
        (Live(c) /\ calls[c].pc # "idle") ~> Terminated(c)

\* C6: every FormField of an extraction result has a non-empty name and a
\* non-empty label.
C6_NameAndLabelNonEmpty ==
    applied =>
        \A i \in 1..Len(formFields) :
            formFields[i].Name # <<>> /\ formFields[i].Label # <<>>

\* C7: no two records of one extraction result have the same name; stated
\* here for the inputs the claim names, descriptors that differ from each
\* other and whose names are not empty.
C7_NamesUnique ==
    (/\ applied
     /\ \A i, j \in 1..Len(descriptors) :
            i # j => descriptors[i] # descriptors[j]
     /\ \A i \in 1..Len(formFields) : formFields[i].Name # <<>>) =>
        \A i, j \in 1..Len(formFields) :
            i # j => formFields[i].Name # formFields[j].Name

\* the descriptors with at least 3 tokens, in the order of the input
KeptDescriptors == SelectSeq(descriptors, LAMBDA d : Len(Fields(d)) >= 3)

\* C8: Extract returns one record per descriptor of at least 3 tokens and
\* none for the others, in the order of the input; the type is the 3rd
\* token, name and label are cleanPDFFieldName of the tokens from the 4th
\* on joined by single spaces, required is false and value is empty.
C8_OneFieldPerDescriptor ==
    applied =>
        /\ Len(formFields) = Len(KeptDescriptors)
        /\ \A i \in 1..Len(KeptDescriptors) :
               LET t == Fields(KeptDescriptors[i])
                   n == cleanPDFFieldName(Join(SubSeq(t, 4, Len(t)), <<" ">>))
               IN  formFields[i] =
                       [Name |-> n.cleanName, Type |-> t[3], Label |-> n.label,
                        Required |-> FALSE, Value |-> <<>>]

\* C8, reached: of two descriptors the short first one was skipped and the
\* second, of 5 tokens, gave the only record
C8_Witness ==
    /\ applied
    /\ Len(descriptors) = 2
    /\ Len(Fields(descriptors[1])) = 2
    /\ Len(Fields(descriptors[2])) = 5
    /\ Len(formFields) = 1
    /\ formFields[1].Name # formFields[1].Label

\* the number of decimal digits s ends with
RECURSIVE TrailingDigits(_)
TrailingDigits(s) ==
    IF s # <<>> /\ IsDigit(s[Len(s)])
    THEN 1 + TrailingDigits(SubSeq(s, 1, Len(s) - 1))
    ELSE 0

\* whitespace, then quotes, then braces stripped from both ends
Stripped(s) == Trim(Trim(TrimSpace(s), "\""), "}")

\* C9: for an input of at least 2 tokens whose base name (the input minus
\* its first token) ends in _<digits>, the name is the stripped base name
\* followed by _<digits> and the label is it followed by " (<digits>)";
\* without such a suffix name and label are both the stripped base name;
\* an input of fewer than 2 tokens is returned unchanged as both.
C9_NameAndLabelShape ==
    applied =>
        LET parts == Fields(name)
            base == Join(Tail(parts), <<" ">>)
            k == TrailingDigits(base)
            n == Len(base)
        IN  IF Len(parts) < 2
            THEN cleaned = [cleanName |-> name, label |-> name]
            ELSE IF k >= 1 /\ n > k /\ base[n - k] = "_"
                 THEN LET stem == Stripped(SubSeq(base, 1, n - k - 1))
                          digits == SubSeq(base, n - k + 1, n)
                      IN  /\ cleaned.cleanName = stem \o <<"_">> \o digits
                          /\ cleaned.label =
                                 stem \o <<" ", "(">> \o digits \o <<")">>
                 ELSE /\ cleaned.cleanName = Stripped(base)
                      /\ cleaned.label = Stripped(base)

\* C10, as stated: for an input of at least 2 tokens neither the name nor
\* the label contains the text of the first token.
C10_FirstTokenAbsent ==
    (applied /\ Len(Fields(name)) >= 2) =>
        /\ ~Contains(cleaned.cleanName, Fields(name)[1])
        /\ ~Contains(cleaned.label, Fields(name)[1])

\* tokens to put in the place of the first token
OtherFirstTokens == { <<"7">>, <<"a">>, <<"_", "1">>, <<"\"">>, <<"z", "}">> }

\* C10, amended: for an input of at least 2 tokens the name and the label
\* are made of the tokens after the first only: with any other token in the
\* place of the first one they are the same.
C10_FirstTokenDropped ==
    (applied /\ Len(Fields(name)) >= 2) =>
        \A t \in OtherFirstTokens :
            cleanPDFFieldName(t \o <<" ">> \o Join(Tail(Fields(name)), <<" ">>))
                = cleaned

\* C10, reached: the first token was dropped, and its text is in the name
\* all the same, because a later token holds it
C10_Witness ==
    /\ applied
    /\ Len(Fields(name)) >= 2
    /\ Fields(name)[1] = <<"1">>
    /\ cleaned.cleanName = <<"a", "_", "1">>
    /\ cleaned.label = <<"a", " ", "(", "1", ")">>

\* the text after the last underscore of the base name of an input of at
\* least 2 tokens (empty when the base name has no underscore)
AfterLastUnderscore(raw) ==
    LET base == TrimSpace(Join(Tail(Fields(raw)), <<" ">>))
        idx == LastIndex(base, "_")
    IN  IF idx = -1 THEN <<>> ELSE SliceFrom(base, idx + 1)

\* C11: for an input of at least 2 tokens a numeric suffix is recognized
\* (the label then differs from the name, it is the name with the suffix in
\* parentheses) exactly when the text after the last underscore of the base
\* name is a non-empty run of decimal digits: never for a signed number,
\* and for a run of digits of any length.
C11_SuffixIffDigits ==
    (applied /\ Len(Fields(name)) >= 2) =>
        LET after == AfterLastUnderscore(name)
        IN  (cleaned.cleanName # cleaned.label) <=>
                /\ after # <<>>
                /\ \A i \in 1..Len(after) : IsDigit(after[i])

\* the positions of the elements that have a name attribute, in order
NamedIndices(elements) ==
    SelectSeq([i \in 1..Len(elements) |-> i],
              LAMBDA i : "name" \in DOMAIN elements[i])

\* the value of attribute attr of e, empty when e has no such attribute
AttrOrEmpty(e, attr) == IF attr \in DOMAIN e THEN e[attr] ELSE <<>>

\* the first non-empty string of a sequence of strings, empty without one
RECURSIVE FirstNonEmpty(_)
FirstNonEmpty(cands) ==
    IF cands = <<>> THEN <<>>
    ELSE IF Head(cands) # <<>> THEN Head(cands)
    ELSE FirstNonEmpty(Tail(cands))

\* C12: for every element with a non-empty name the label of its record is
\* the first non-empty of: the text of the label linked to its id, its
\* aria-label, its placeholder, its name.  A non-empty linked label text is
\* the label whatever the other attributes hold, without any of the three
\* the label is the name, and the label is never empty.
C12_LabelFirstNonEmpty ==
    applied =>
        LET idxs == NamedIndices(dom.elements)
        IN  \A k \in 1..Len(idxs) :
                LET e == dom.elements[idxs[k]]
                    text == dom.texts[idxs[k]]
                    aria == AttrOrEmpty(e, "aria-label")
                    placeholder == AttrOrEmpty(e, "placeholder")
                IN  e["name"] # <<>> =>
                        /\ k <= Len(formFields)
                        /\ formFields[k].Label =
                               FirstNonEmpty(<<text, aria, placeholder, e["name"]>>)
                        /\ text # <<>> => formFields[k].Label = text
                        /\ (text = <<>> /\ aria = <<>> /\ placeholder = <<>>)
                               => formFields[k].Label = e["name"]
                        /\ formFields[k].Label # <<>>

\* C12, reached: a first element whose linked label text won over its
\* aria-label and placeholder, and a second one, with an empty aria-label,
\* whose placeholder became the label
C12_Witness ==
    /\ applied
    /\ Len(dom.elements) = 2
    /\ Len(formFields) = 2
    /\ dom.texts[1] = <<"L">>
    /\ AttrOrEmpty(dom.elements[1], "aria-label") = <<"A">>
    /\ AttrOrEmpty(dom.elements[1], "placeholder") = <<"P">>
    /\ formFields[1].Label = <<"L">>
    /\ "aria-label" \in DOMAIN dom.elements[2]
    /\ dom.elements[2]["aria-label"] = <<>>
    /\ formFields[2].Name = <<"n">>
    /\ formFields[2].Label = <<"P">>

\* C13: Extract returns one record per element that has a name attribute
\* and none for the others, in document order; the name is the name
\* attribute, the type is the type attribute when it is present and not
\* empty and "text" otherwise, required is true exactly when the element
\* has a required attribute.
C13_OneFieldPerNamedElement ==
    applied =>
        LET idxs == NamedIndices(dom.elements)
        IN  /\ Len(formFields) = Len(idxs)
            /\ \A k \in 1..Len(idxs) :
                   LET e == dom.elements[idxs[k]]
                   IN  /\ formFields[k].Name = e["name"]
                       /\ formFields[k].Type =
                              (IF AttrOrEmpty(e, "type") # <<>>
                               THEN e["type"] ELSE <<"t", "e", "x", "t">>)
                       /\ formFields[k].Required = ("required" \in DOMAIN e)

\* C14: no call of ExtractFields ends in a panic: a call that is over has
\* returned, and when it returned an error the field list it returned with
\* it is nil.
C14_FailuresAreReturnedErrors ==
    \A c \in DOMAIN calls :
        /\ calls[c].pc # "panicked"
        /\ (calls[c].pc = "returned" /\ calls[c].ret.err # "nil") =>
               calls[c].ret.fields = <<>>

OwnResources ==
    /\ \A c \in DOMAIN calls :
           /\ calls[c].file # 0 =>
                  /\ calls[c].file \in DOMAIN files
                  /\ files[calls[c].file].owner = c
           /\ calls[c].browser # 0 =>
                  /\ calls[c].browser \in DOMAIN browsers
                  /\ browsers[calls[c].browser].owner = c
    /\ (\A c \in DOMAIN calls : calls[c].pc = "returned") =>
           /\ \A f \in DOMAIN files : files[f].closed
           /\ \A b \in DOMAIN browsers : browsers[b].closed

\* a step writes the frame of one call only, leaves the config alone, and
\* whatever it does to a temp file or a browser session (create, close,
\* remove) it does as a step of the call that owns it
OwnSteps ==
    /\ config' = config
    /\ \A c, d \in DOMAIN calls :
           (calls'[c] # calls[c] /\ calls'[d] # calls[d]) => c = d
    /\ Len(files') >= Len(files)
    /\ Len(browsers') >= Len(browsers)
    /\ \A f \in DOMAIN files' :
           (f \notin DOMAIN files \/ files'[f] # files[f]) =>
               calls'[files'[f].owner] # calls[files'[f].owner]
    /\ \A b \in DOMAIN browsers' :
           (b \notin DOMAIN browsers \/ browsers'[b] # browsers[b]) =>
               calls'[browsers'[b].owner] # calls[browsers'[b].owner]

\* C16: with several calls of ExtractFields running concurrently on one
\* Scrapper, under every interleaving each call has a temp file or browser
\* session of its own, only the call that acquired a resource closes or
\* removes it, no step writes the config or the frame of another call, and
\* once all calls have returned no temp file and no browser session is open.
C16_CallsAreIsolated == []OwnResources /\ [][OwnSteps]_vars

\* C16, reached: two calls that ran the PDF path side by side have both
\* returned, each with a temp file of its own, the second call's created
\* first, and both files are closed
C16_Witness ==
    /\ \A c \in CallIds : Live(c) /\ calls[c].pc = "returned" /\ calls[c].built
    /\ Len(files) = 2
    /\ files[1].owner = "c2"
    /\ files[2].owner = "c1"
    /\ calls["c1"].file = 2
    /\ calls["c2"].file = 1
    /\ files[1].closed /\ files[2].closed

=============================================================================
